---- MODULE Spec2Model ----
(***************************************************************************)
(* Two-player queens puzzle server.                                        *)
(*                                                                         *)
(*   src/server/gameLogic.js  board generation (generateRegions,           *)
(*                            growRegion), the backtracking solver          *)
(*                            (findSolution) and validateQueenPlacement     *)
(*   src/server/index.js      the socket.io handlers over gameRooms         *)
(*                                                                         *)
(* Five specifications share the module:                                   *)
(*   Spec         the session state machine of index.js                    *)
(*   SpecGen      one call of generatePuzzleBoard(), step by step          *)
(*   SpecGenFair  SpecGen with the fairness of a running call              *)
(*   SpecSolve    findSolution applied to a family of region grids         *)
(*   SpecBoard    generatePuzzleBoard() on generated and on given grids    *)
(***************************************************************************)
EXTENDS Integers, Sequences, FiniteSets, TLC

\* gameLogic.js:2-3
BOARD_SIZE == 8
NUM_REGIONS == 8

\* JavaScript null in a grid cell (gameLogic.js:23). It differs from every
\* region id and from -1, the value regionId takes after `regionId--` at id 0.
Null == -2

Idx == 0 .. (BOARD_SIZE - 1)

\* ---- bounds of the model ----
\* Math.random() is modelled as a linear congruential generator; SpecGen
\* draws its seed from 0 .. MaxSeed-1.
MaxSeed == 7
\* Depth of the recursion `return generateRegions()` the model follows.
MaxDepth == 200

VARIABLES
  \* ---- generatePuzzleBoard (gameLogic.js) ----
  regions,        \* the grid under construction: regions[row][col]
  usedRegionIds,  \* Set of region ids that reached 3 cells
  regionId,       \* loop variable of generateRegions
  startRow,       \* seed cell of the current region
  startCol,
  queue,          \* growRegion's frontier
  cellsInRegion,  \* growRegion's counter
  targetSize,     \* growRegion's target
  rng,            \* state of Math.random()
  depth,          \* number of generateRegions frames on the stack
  returned,       \* {} until generatePuzzleBoard returns, then {its result}
  pc,             \* position inside generatePuzzleBoard
  \* ---- session (index.js) ----
  gameRooms,      \* roomId -> room
  ioRooms,        \* socket.io room membership: roomId -> set of socket ids
  sockets,        \* connected sockets
  closed,         \* sockets that have disconnected (an id is never reused)
  timers,         \* pending setTimeout callbacks, in firing order
  emitted         \* events sent by the last handler or timer callback

genVars == <<regions, usedRegionIds, regionId, startRow, startCol, queue,
             cellsInRegion, targetSize, rng, depth, returned, pc>>
sessVars == <<gameRooms, ioRooms, sockets, closed, timers, emitted>>
vars == <<genVars, sessVars>>

Abs(x) == IF x < 0 THEN -x ELSE x

\* ------------------------------------------------------------------------
\* gameLogic.js: solver and validator
\* ------------------------------------------------------------------------

\* Mutant of isUnderAttack: only diagonally adjacent queens attack.
isUnderAttackAdjacent(row, col, queens) ==
  \E i \in 1 .. Len(queens) :
    Abs(queens[i].row - row) = 1 /\ Abs(queens[i].col - col) = 1

\* Mutant of isUnderAttack: no diagonal attack is ever seen.
isUnderAttackNever(row, col, queens) == FALSE

\* isUnderAttack, gameLogic.js:202-212
isUnderAttack(row, col, queens) ==
  \E i \in 1 .. Len(queens) :
    Abs(queens[i].row - row) = Abs(queens[i].col - col)

\* findSolution's closure state before placeQueens(0), gameLogic.js:134-142
NoQueens ==
  [usedRows |-> {}, usedCols |-> {}, usedRegions |-> {}, solution |-> <<>>]

RECURSIVE placeQueens(_, _, _)
RECURSIVE tryColumns(_, _, _, _)

\* The for loop of placeQueens from column col on, gameLogic.js:165-197.
\* st is the closure state (usedRows, usedCols, usedRegions, solution).
tryColumns(regs, row, col, st) ==
  IF col >= BOARD_SIZE THEN [found |-> FALSE, st |-> st]
  ELSE
    LET rid == regs[row][col] IN
    IF col \in st.usedCols \/ rid \in st.usedRegions
      THEN tryColumns(regs, row, col + 1, st)
    ELSE IF isUnderAttack(row, col, st.solution)
      THEN tryColumns(regs, row, col + 1, st)
    ELSE
      LET placed == [usedRows |-> st.usedRows \cup {row},
                     usedCols |-> st.usedCols \cup {col},
                     usedRegions |-> st.usedRegions \cup {rid},
                     solution |-> Append(st.solution, [row |-> row, col |-> col])]
          sub == placeQueens(regs, row + 1, placed)
      IN IF sub.found THEN sub
         ELSE
           LET back == [usedRows |-> sub.st.usedRows \ {row},
                        usedCols |-> sub.st.usedCols \ {col},
                        usedRegions |-> sub.st.usedRegions \ {rid},
                        solution |-> SubSeq(sub.st.solution, 1,
                                            Len(sub.st.solution) - 1)]
           IN tryColumns(regs, row, col + 1, back)

\* placeQueens, gameLogic.js:153-198
placeQueens(regs, row, st) ==
  IF row >= BOARD_SIZE THEN [found |-> TRUE, st |-> st]
  ELSE IF row \in st.usedRows THEN placeQueens(regs, row + 1, st)
  ELSE tryColumns(regs, row, 0, st)

\* JavaScript null as the result of findSolution: a found solution has 8
\* cells, so the empty sequence stands for null without ambiguity.
NoSolution == <<>>

\* findSolution, gameLogic.js:132-150
findSolution(regs) ==
  LET r == placeQueens(regs, 0, NoQueens)
  IN IF r.found THEN r.st.solution ELSE NoSolution

\* Mutant of validateQueenPlacement: the diagonal check is missing.
validateQueenPlacementNoDiagonal(board, row, col, queens) ==
  LET rid == board.regions[row][col] IN
  IF \E i \in 1 .. Len(queens) : queens[i].row = row
    THEN [valid |-> FALSE, message |-> "There's already a queen in this row"]
  ELSE IF \E i \in 1 .. Len(queens) : queens[i].col = col
    THEN [valid |-> FALSE, message |-> "There's already a queen in this column"]
  ELSE IF \E i \in 1 .. Len(queens) :
            board.regions[queens[i].row][queens[i].col] = rid
    THEN [valid |-> FALSE, message |-> "There's already a queen in this region"]
  ELSE [valid |-> TRUE, message |-> ""]

\* Mutant of validateQueenPlacement: the region check runs before the column
\* check.
validateQueenPlacementRegionFirst(board, row, col, queens) ==
  LET rid == board.regions[row][col] IN
  IF \E i \in 1 .. Len(queens) : queens[i].row = row
    THEN [valid |-> FALSE, message |-> "There's already a queen in this row"]
  ELSE IF \E i \in 1 .. Len(queens) :
            board.regions[queens[i].row][queens[i].col] = rid
    THEN [valid |-> FALSE, message |-> "There's already a queen in this region"]
  ELSE IF \E i \in 1 .. Len(queens) : queens[i].col = col
    THEN [valid |-> FALSE, message |-> "There's already a queen in this column"]
  ELSE IF \E i \in 1 .. Len(queens) :
            Abs(queens[i].row - row) = Abs(queens[i].col - col)
    THEN [valid |-> FALSE, message |-> "Queens cannot attack each other diagonally"]
  ELSE [valid |-> TRUE, message |-> ""]

\* validateQueenPlacement, gameLogic.js:215-241
validateQueenPlacement(board, row, col, queens) ==
  LET rid == board.regions[row][col] IN
  IF \E i \in 1 .. Len(queens) : queens[i].row = row
    THEN [valid |-> FALSE, message |-> "There's already a queen in this row"]
  ELSE IF \E i \in 1 .. Len(queens) : queens[i].col = col
    THEN [valid |-> FALSE, message |-> "There's already a queen in this column"]
  ELSE IF \E i \in 1 .. Len(queens) :
            board.regions[queens[i].row][queens[i].col] = rid
    THEN [valid |-> FALSE, message |-> "There's already a queen in this region"]
  ELSE IF \E i \in 1 .. Len(queens) :
            Abs(queens[i].row - row) = Abs(queens[i].col - col)
    THEN [valid |-> FALSE, message |-> "Queens cannot attack each other diagonally"]
  ELSE [valid |-> TRUE, message |-> ""]

\* ------------------------------------------------------------------------
\* gameLogic.js: Math.random and the region generator
\* ------------------------------------------------------------------------

\* Math.random(): the next state of the generator.
Lcg(x) == (75 * x + 74) % 65537

\* Math.floor(Math.random() * n), for the generator state x just drawn.
RandInt(x, n) == (x * n) \div 65537

\* gameLogic.js:23
EmptyGrid == [r \in Idx |-> [c \in Idx |-> Null]]

\* gameLogic.js:98-103
directions ==
  << [dr |-> -1, dc |-> 0], [dr |-> 0, dc |-> 1],
     [dr |-> 1, dc |-> 0], [dr |-> 0, dc |-> -1] >>

RECURSIVE visitNeighbours(_, _, _, _, _, _)

\* The `for (const {dr, dc} of directions)` loop of growRegion from
\* direction i on, gameLogic.js:105-125. g holds the regions grid, the
\* cellsInRegion counter and the queue.
visitNeighbours(g, row, col, i, rid, target) ==
  IF i > Len(directions) THEN g
  ELSE
    LET newRow == row + directions[i].dr
        newCol == col + directions[i].dc
    IN IF /\ newRow >= 0 /\ newRow < BOARD_SIZE
          /\ newCol >= 0 /\ newCol < BOARD_SIZE
          /\ g.regions[newRow][newCol] = Null
       THEN
         LET g2 == [regions |-> [g.regions EXCEPT ![newRow][newCol] = rid],
                    cellsInRegion |-> g.cellsInRegion + 1,
                    queue |-> Append(g.queue, [row |-> newRow, col |-> newCol])]
         IN IF g2.cellsInRegion >= target THEN g2
            ELSE visitNeighbours(g2, row, col, i + 1, rid, target)
       ELSE visitNeighbours(g, row, col, i + 1, rid, target)

\* queue.splice(randomIndex, 1), gameLogic.js:95 (randomIndex counts from 0)
splice(q, randomIndex) ==
  SubSeq(q, 1, randomIndex) \o SubSeq(q, randomIndex + 2, Len(q))

\* The reset loop of generateRegions, gameLogic.js:44-50: every cell that
\* holds id becomes null.
resetCells(regs, id) ==
  [r \in Idx |-> [c \in Idx |-> IF regs[r][c] = id THEN Null ELSE regs[r][c]]]

\* gameLogic.js:57-66
allCellsFilled(regs) == \A r \in Idx : \A c \in Idx : regs[r][c] # Null

\* The session part of the state while SpecGen or SpecSolve runs.
SessIdle ==
  /\ gameRooms = << >>
  /\ ioRooms = << >>
  /\ sockets = {}
  /\ closed = {}
  /\ timers = << >>
  /\ emitted = << >>

\* generatePuzzleBoard() is called: generateRegions' first frame has its
\* empty grid and regionId = 0 (gameLogic.js:8, 23-29).
GenInit ==
  /\ rng \in 0 .. (MaxSeed - 1)
  /\ regions = EmptyGrid
  /\ usedRegionIds = {}
  /\ regionId = 0
  /\ startRow = 0
  /\ startCol = 0
  /\ queue = << >>
  /\ cellsInRegion = 0
  /\ targetSize = 0
  /\ depth = 1
  /\ returned = {}
  /\ pc = "pickStart"
  /\ SessIdle

\* One iteration of the do-while that draws the start cell,
\* gameLogic.js:32-35.
PickStart ==
  /\ pc = "pickStart"
  /\ LET r1 == Lcg(rng)
         r2 == Lcg(r1)
         row == RandInt(r1, BOARD_SIZE)
         col == RandInt(r2, BOARD_SIZE)
     IN /\ rng' = r2
        /\ startRow' = row
        /\ startCol' = col
        /\ pc' = IF regions[row][col] # Null THEN "pickStart" ELSE "grow"
  /\ UNCHANGED <<regions, usedRegionIds, regionId, queue, cellsInRegion,
                 targetSize, depth, returned>>
  /\ UNCHANGED sessVars

\* growRegion up to its while loop, gameLogic.js:77-88.
GrowInit ==
  /\ pc = "grow"
  /\ regions' = [regions EXCEPT ![startRow][startCol] = regionId]
  /\ cellsInRegion' = 1
  /\ queue' = << [row |-> startRow, col |-> startCol] >>
  /\ rng' = Lcg(rng)
  /\ targetSize' = RandInt(Lcg(rng), 10) + 3
  /\ pc' = "growLoop"
  /\ UNCHANGED <<usedRegionIds, regionId, startRow, startCol, depth, returned>>
  /\ UNCHANGED sessVars

\* One iteration of growRegion's while loop, gameLogic.js:91-126.
GrowStep ==
  /\ pc = "growLoop"
  /\ Len(queue) > 0 /\ cellsInRegion < targetSize
  /\ LET r1 == Lcg(rng)
         randomIndex == RandInt(r1, Len(queue))
         cell == queue[randomIndex + 1]
         g == visitNeighbours(
                [regions |-> regions, cellsInRegion |-> cellsInRegion,
                 queue |-> splice(queue, randomIndex)],
                cell.row, cell.col, 1, regionId, targetSize)
     IN /\ rng' = r1
        /\ regions' = g.regions
        /\ cellsInRegion' = g.cellsInRegion
        /\ queue' = g.queue
  /\ UNCHANGED <<usedRegionIds, regionId, startRow, startCol, targetSize,
                 depth, returned, pc>>
  /\ UNCHANGED sessVars

\* The id generateRegions resets after a short region: the loop variable
\* after `regionId--`, gameLogic.js:42-46.
resetId(id) == id - 1

\* growRegion returns and generateRegions finishes the loop body: the
\* short-region retry or usedRegionIds.add, then regionId++ and the loop
\* test, gameLogic.js:38-54 and 29.
RegionEnd ==
  /\ pc = "growLoop"
  /\ ~(Len(queue) > 0 /\ cellsInRegion < targetSize)
  /\ IF cellsInRegion < 3
       THEN /\ regions' = resetCells(regions, resetId(regionId))
            /\ regionId' = (regionId - 1) + 1
            /\ UNCHANGED usedRegionIds
            /\ pc' = "pickStart"
       ELSE /\ usedRegionIds' = usedRegionIds \cup {regionId}
            /\ regionId' = regionId + 1
            /\ UNCHANGED regions
            /\ pc' = IF regionId + 1 < NUM_REGIONS THEN "pickStart" ELSE "check"
  /\ UNCHANGED <<startRow, startCol, queue, cellsInRegion, targetSize, rng,
                 depth, returned>>
  /\ UNCHANGED sessVars

\* The test after the loop, gameLogic.js:69.
mustRetry(regs, used) ==
  ~allCellsFilled(regs) \/ Cardinality(used) # NUM_REGIONS

\* `return generateRegions()`, gameLogic.js:56-71: a new frame starts over.
GenRetry ==
  /\ pc = "check"
  /\ mustRetry(regions, usedRegionIds)
  /\ depth < MaxDepth
  /\ depth' = depth + 1
  /\ regions' = EmptyGrid
  /\ usedRegionIds' = {}
  /\ regionId' = 0
  /\ pc' = "pickStart"
  /\ UNCHANGED <<startRow, startCol, queue, cellsInRegion, targetSize, rng,
                 returned>>
  /\ UNCHANGED sessVars

\* `return regions`, gameLogic.js:56-73 (through every frame of the recursion).
GenReturn ==
  /\ pc = "check"
  /\ ~mustRetry(regions, usedRegionIds)
  /\ pc' = "solve"
  /\ UNCHANGED <<regions, usedRegionIds, regionId, startRow, startCol, queue,
                 cellsInRegion, targetSize, rng, depth, returned>>
  /\ UNCHANGED sessVars

\* generatePuzzleBoard after generateRegions, gameLogic.js:11-17.
generatePuzzleBoard(regs) == [regions |-> regs, solution |-> findSolution(regs)]

Solve ==
  /\ pc = "solve"
  /\ returned' = {generatePuzzleBoard(regions)}
  /\ pc' = "done"
  /\ UNCHANGED <<regions, usedRegionIds, regionId, startRow, startCol, queue,
                 cellsInRegion, targetSize, rng, depth>>
  /\ UNCHANGED sessVars

GenNext ==
  \/ PickStart
  \/ GrowInit
  \/ GrowStep
  \/ RegionEnd
  \/ GenRetry
  \/ GenReturn
  \/ Solve

SpecGen == GenInit /\ [][GenNext]_vars

\* ------------------------------------------------------------------------
\* Boards generatePuzzleBoard() hands to the session
\* ------------------------------------------------------------------------

\* A grid written row by row, as regions[row][col].
Grid(rows) == [r \in Idx |-> [c \in Idx |-> rows[r + 1][c + 1]]]

\* The grid generateRegions() returns for Math.random() seed 6; it has a
\* solution.
GridSolvable ==
  Grid(<< <<4, 4, 4, 2, 2, 2, 2, 1>>,
          <<4, 4, 2, 2, 2, 2, 1, 1>>,
          <<4, 4, 6, 2, 2, 1, 1, 1>>,
          <<6, 6, 6, 6, 5, 5, 1, 1>>,
          <<6, 6, 0, 0, 5, 5, 5, 1>>,
          <<6, 0, 0, 0, 5, 5, 5, 1>>,
          <<3, 3, 0, 3, 3, 3, 7, 7>>,
          <<3, 3, 3, 3, 3, 3, 3, 7>> >>)

\* The grid generateRegions() returns for Math.random() seed 0: eight
\* connected regions of at least 3 cells, and no solution.
GridUnsolvable ==
  Grid(<< <<7, 7, 7, 7, 7, 7, 3, 3>>,
          <<7, 7, 2, 7, 7, 3, 3, 3>>,
          <<7, 2, 2, 2, 7, 3, 3, 3>>,
          <<0, 2, 2, 2, 2, 5, 3, 5>>,
          <<0, 2, 2, 4, 5, 5, 5, 5>>,
          <<0, 0, 4, 4, 4, 1, 5, 1>>,
          <<0, 0, 0, 6, 1, 1, 1, 1>>,
          <<0, 0, 6, 6, 1, 1, 1, 1>> >>)

\* The results of generatePuzzleBoard() the session draws from: SpecGen
\* reaches each of them (GenReachesSamples).
Boards ==
  {generatePuzzleBoard(GridSolvable), generatePuzzleBoard(GridUnsolvable)}

\* room.board = null, index.js:46, 255, 277
NoBoard == [regions |-> EmptyGrid, solution |-> NoSolution]

\* ------------------------------------------------------------------------
\* index.js: the session state machine
\* ------------------------------------------------------------------------

\* ---- inputs of the model ----
\* Socket ids of the clients, in the order in which they connect.
SocketOrder == << "s1", "s2", "s3" >>
Sockets == {SocketOrder[i] : i \in 1 .. Len(SocketOrder)}
\* The ids generateRoomId() may return, in Object.keys order.
RoomOrder == << "A" >>
RoomIds == {RoomOrder[i] : i \in 1 .. Len(RoomOrder)}
PlayerNames == {"Ann"}
Cell(r, c) == [row |-> r, col |-> c]
\* Cells each client asks placeQueen for. s1 works through the solution of
\* GridSolvable and tries (0,0) and (1,0), which share a column and a region,
\* and (1,2), which lies on a diagonal of (0,3) and, on GridUnsolvable, in
\* another region; s2 and s3 each ask for one cell.
PlaceCells(sock) ==
  IF sock = "s1"
    THEN {Cell(0, 3), Cell(1, 7), Cell(2, 0), Cell(3, 2), Cell(4, 5),
          Cell(5, 1), Cell(6, 6), Cell(7, 4), Cell(0, 0), Cell(1, 0),
          Cell(1, 2)}
  ELSE IF sock = "s2" THEN {Cell(0, 3)}
  ELSE {Cell(0, 3)}
\* Cells each client asks markCell for.
MarkCells(sock) == IF sock = "s1" THEN {Cell(0, 3)} ELSE {Cell(7, 7)}
\* The values each client sends with playerReady: s3, the latecomer, never
\* declares itself ready.
ReadyInputs(sock) == IF sock = "s3" THEN {FALSE} ELSE BOOLEAN
\* Pending setTimeout callbacks the model follows at a time.
MaxTimers == 1

\* `player.queens.length === 8`, index.js:181
WinCount == 8

\* An emitted event: its name, the sockets it is sent to, the socket whose
\* handler sent it ("" for a timer callback), the roomId the handler was
\* called with, and its payload (boards holds the board of a gameStart event
\* and is empty otherwise).
Ev(name, to, sock, roomId) ==
  [name |-> name, to |-> to, socket |-> sock, roomId |-> roomId,
   message |-> "", row |-> -1, col |-> -1, boards |-> {}]

\* Mutant of EvMsg: the error is broadcast with io.to(roomId).emit.
EvMsgToRoom(name, sock, roomId, msg) ==
  [Ev(name, ioRooms[roomId] \cup {sock}, sock, roomId) EXCEPT !.message = msg]

\* socket.emit('error' | 'invalidMove', { message }): to the caller only
\* (index.js:68, 74, 112, 151, 158, 166, 203, 210, 216, 249, 271)
EvMsg(name, sock, roomId, msg) ==
  [Ev(name, {sock}, sock, roomId) EXCEPT !.message = msg]

\* io.to(roomId).emit(name, { playerId, row, col }), index.js:174, 226, 236
EvCell(name, to, sock, roomId, r, c) ==
  [Ev(name, to, sock, roomId) EXCEPT !.row = r, !.col = c]

\* The player object of createGame and joinGame, index.js:38-44, 79-85
newPlayer(sock, name) ==
  [id |-> sock, name |-> name, ready |-> FALSE, queens |-> << >>,
   marks |-> << >>]

\* room.players.findIndex(p => p.id === socket.id), counted from 1;
\* 0 when there is none (index.js:117, 156, 208, 295)
findPlayer(room, sock) ==
  IF \E i \in 1 .. Len(room.players) : room.players[i].id = sock
    THEN CHOOSE i \in 1 .. Len(room.players) :
           /\ room.players[i].id = sock
           /\ \A j \in 1 .. (i - 1) : room.players[j].id # sock
    ELSE 0

\* gameRooms[roomId] = room
putRoom(rooms, roomId, room) ==
  [k \in (DOMAIN rooms) \cup {roomId} |->
     IF k = roomId THEN room ELSE rooms[k]]

\* The reset of every player, index.js:190-194, 256-260, 278-282
resetPlayers(players) ==
  [i \in 1 .. Len(players) |->
     [players[i] EXCEPT !.ready = FALSE, !.queens = << >>, !.marks = << >>]]

\* History of a pending callback: it is stale once its room was destroyed or
\* reset, or a member of its room disconnected.
markStale(ts, roomId) ==
  [i \in 1 .. Len(ts) |->
     IF ts[i].roomId = roomId THEN [ts[i] EXCEPT !.stale = TRUE] ELSE ts[i]]

\* The generator part of the state while Spec runs: no call of
\* generatePuzzleBoard is in progress between two handlers.
GenIdle ==
  /\ regions = << >>
  /\ usedRegionIds = {}
  /\ regionId = 0
  /\ startRow = 0
  /\ startCol = 0
  /\ queue = << >>
  /\ cellsInRegion = 0
  /\ targetSize = 0
  /\ rng = 0
  /\ depth = 0
  /\ returned = {}
  /\ pc = "idle"

SessInit ==
  /\ gameRooms = << >>
  /\ ioRooms = [r \in RoomIds |-> {}]
  /\ sockets = {}
  /\ closed = {}
  /\ timers = << >>
  /\ emitted = << >>
  /\ GenIdle

\* io.on('connection'), index.js:27-28
Connect(sock) ==
  /\ Cardinality(sockets \cup closed) < Len(SocketOrder)
  /\ sock = SocketOrder[Cardinality(sockets \cup closed) + 1]
  /\ sockets' = sockets \cup {sock}
  /\ emitted' = << >>
  /\ UNCHANGED <<gameRooms, ioRooms, closed, timers>>
  /\ UNCHANGED genVars

\* socket.on('createGame'), index.js:31-60
CreateGame(sock, roomId, name) ==
  /\ sock \in sockets
  /\ gameRooms' = putRoom(gameRooms, roomId,
       [id |-> roomId, players |-> << newPlayer(sock, name) >>,
        gameStarted |-> FALSE, board |-> NoBoard])
  /\ ioRooms' = [ioRooms EXCEPT ![roomId] = @ \cup {sock}]
  /\ timers' = IF roomId \in DOMAIN gameRooms
                 THEN markStale(timers, roomId) ELSE timers
  /\ emitted' = << Ev("gameCreated", {sock}, sock, roomId) >>
  /\ UNCHANGED <<sockets, closed>>
  /\ UNCHANGED genVars

\* Mutant of roomIsFull: `>` for `>=`.
roomIsFullOffByOne(room) == Len(room.players) > 2

\* `room.players.length >= 2`, index.js:73
roomIsFull(room) == Len(room.players) >= 2

\* socket.on('joinGame'), index.js:63-105
JoinGame(sock, roomId, name) ==
  /\ sock \in sockets
  /\ IF roomId \notin DOMAIN gameRooms
       THEN /\ emitted' = << EvMsg("error", sock, roomId, "Game room not found") >>
            /\ UNCHANGED <<gameRooms, ioRooms>>
     ELSE IF roomIsFull(gameRooms[roomId])
       THEN /\ emitted' = << EvMsg("error", sock, roomId, "Game room is full") >>
            /\ UNCHANGED <<gameRooms, ioRooms>>
     ELSE /\ gameRooms' = [gameRooms EXCEPT ![roomId].players =
                             Append(@, newPlayer(sock, name))]
          /\ ioRooms' = [ioRooms EXCEPT ![roomId] = @ \cup {sock}]
          /\ emitted' = << Ev("gameJoined", {sock}, sock, roomId),
                           Ev("playerJoined",
                              (ioRooms[roomId] \cup {sock}) \ {sock}, sock, roomId) >>
  /\ UNCHANGED <<sockets, closed, timers>>
  /\ UNCHANGED genVars

\* `room.players.length === 2 && room.players.every(p => p.ready)`, index.js:128
allReady(room) ==
  /\ Len(room.players) = 2
  /\ \A i \in 1 .. Len(room.players) : room.players[i].ready

\* socket.on('playerReady'), index.js:108-144
PlayerReady(sock, roomId, ready) ==
  /\ sock \in sockets
  /\ IF roomId \notin DOMAIN gameRooms
       THEN /\ emitted' = << EvMsg("error", sock, roomId, "Game room not found") >>
            /\ UNCHANGED <<gameRooms, timers>>
     ELSE
       LET room == gameRooms[roomId]
           i == findPlayer(room, sock)
       IN IF i = 0
            THEN /\ emitted' = << >>
                 /\ UNCHANGED <<gameRooms, timers>>
          ELSE
            LET room2 == [room EXCEPT !.players[i].ready = ready]
                changed == Ev("playerReadyChanged", ioRooms[roomId], sock, roomId)
            IN IF allReady(room2) /\ ~room2.gameStarted
                 THEN /\ Len(timers) < MaxTimers
                      /\ \E board \in Boards :
                           /\ gameRooms' = [gameRooms EXCEPT ![roomId] =
                                [room2 EXCEPT !.board = board,
                                              !.gameStarted = TRUE]]
                           /\ timers' = Append(timers,
                                [roomId |-> roomId, board |-> board,
                                 stale |-> FALSE])
                      /\ emitted' = << changed,
                                       Ev("gameCountdown", ioRooms[roomId], sock,
                                          roomId) >>
                 ELSE /\ gameRooms' = [gameRooms EXCEPT ![roomId] = room2]
                      /\ emitted' = << changed >>
                      /\ UNCHANGED timers
  /\ UNCHANGED <<ioRooms, sockets, closed>>
  /\ UNCHANGED genVars

\* The setTimeout callback of playerReady, index.js:139-141
TimerFire ==
  /\ Len(timers) > 0
  /\ emitted' = << [Ev("gameStart", ioRooms[timers[1].roomId], "",
                       timers[1].roomId)
                      EXCEPT !.boards = {timers[1].board}] >>
  /\ timers' = Tail(timers)
  /\ UNCHANGED <<gameRooms, ioRooms, sockets, closed>>
  /\ UNCHANGED genVars

\* Mutant of hasWon: one queen early.
hasWonOffByOne(queens) == Len(queens) >= WinCount - 1

\* `player.queens.length === 8`, index.js:181
hasWon(queens) == Len(queens) = WinCount

\* The reset of a won round, index.js:189-194
resetAfterWin(room) ==
  [room EXCEPT !.gameStarted = FALSE, !.players = resetPlayers(@)]

\* socket.on('placeQueen'), index.js:147-196
PlaceQueen(sock, roomId, row, col) ==
  /\ sock \in sockets
  /\ IF roomId \notin DOMAIN gameRooms \/ ~gameRooms[roomId].gameStarted
       THEN /\ emitted' = << EvMsg("error", sock, roomId, "Game not started") >>
            /\ UNCHANGED <<gameRooms, timers>>
     ELSE
       LET room == gameRooms[roomId]
           i == findPlayer(room, sock)
       IN IF i = 0
            THEN /\ emitted' = << EvMsg("error", sock, roomId, "Player not found") >>
                 /\ UNCHANGED <<gameRooms, timers>>
          ELSE
            LET validation == validateQueenPlacement(room.board, row, col,
                                                     room.players[i].queens)
            IN IF ~validation.valid
                 THEN /\ emitted' = << EvMsg("invalidMove", sock, roomId,
                                             validation.message) >>
                      /\ UNCHANGED <<gameRooms, timers>>
               ELSE
                 LET room2 == [room EXCEPT !.players[i].queens =
                                 Append(@, Cell(row, col))]
                     placed == EvCell("queenPlaced", ioRooms[roomId], sock, roomId, row, col)
                 IN IF hasWon(room2.players[i].queens)
                      THEN /\ gameRooms' = [gameRooms EXCEPT ![roomId] =
                                              resetAfterWin(room2)]
                           /\ timers' = markStale(timers, roomId)
                           /\ emitted' = << placed,
                                 Ev("gameWon", ioRooms[roomId], sock, roomId) >>
                      ELSE /\ gameRooms' = [gameRooms EXCEPT ![roomId] = room2]
                           /\ emitted' = << placed >>
                           /\ UNCHANGED timers
  /\ UNCHANGED <<ioRooms, sockets, closed>>
  /\ UNCHANGED genVars

\* cells.some(x => x.row === row && x.col === col), index.js:215, 221
hasCell(cells, row, col) ==
  \E k \in 1 .. Len(cells) : cells[k].row = row /\ cells[k].col = col

\* Mutant of withoutCell: the filter keeps every mark.
withoutCellKeepsAll(cells, row, col) == cells

\* marks.filter(m => !(m.row === row && m.col === col)), index.js:223
withoutCell(cells, row, col) ==
  SelectSeq(cells, LAMBDA m : ~(m.row = row /\ m.col = col))

\* The body of socket.on('markCell'), index.js:199-242, as a function of the
\* state it reads: the gameRooms it leaves and the events it emits.
markCell(rooms, io, sock, roomId, row, col) ==
  IF roomId \notin DOMAIN rooms \/ ~rooms[roomId].gameStarted
    THEN [gameRooms |-> rooms,
          emitted |-> << EvMsg("error", sock, roomId, "Game not started") >>]
  ELSE
    LET room == rooms[roomId]
        i == findPlayer(room, sock)
    IN IF i = 0
         THEN [gameRooms |-> rooms,
               emitted |-> << EvMsg("error", sock, roomId, "Player not found") >>]
       ELSE IF hasCell(room.players[i].queens, row, col)
         THEN [gameRooms |-> rooms,
               emitted |-> << EvMsg("invalidMove", sock, roomId,
                                    "Cell already has a queen") >>]
       ELSE IF hasCell(room.players[i].marks, row, col)
         THEN [gameRooms |-> [rooms EXCEPT ![roomId].players[i].marks =
                                withoutCell(@, row, col)],
               emitted |-> << EvCell("cellUnmarked", io[roomId], sock,
                                     roomId, row, col) >>]
       ELSE [gameRooms |-> [rooms EXCEPT ![roomId].players[i].marks =
                              Append(@, Cell(row, col))],
             emitted |-> << EvCell("cellMarked", io[roomId], sock,
                                   roomId, row, col) >>]

\* socket.on('markCell'), index.js:199-242
MarkCell(sock, roomId, row, col) ==
  /\ sock \in sockets
  /\ LET res == markCell(gameRooms, ioRooms, sock, roomId, row, col)
     IN /\ gameRooms' = res.gameRooms
        /\ emitted' = res.emitted
  /\ UNCHANGED <<ioRooms, sockets, closed, timers>>
  /\ UNCHANGED genVars

\* The reset of restartGame and newPuzzle, index.js:254-260, 276-282
resetRoom(room) ==
  [room EXCEPT !.gameStarted = FALSE, !.board = NoBoard,
               !.players = resetPlayers(@)]

\* socket.on('restartGame'), index.js:245-264
RestartGame(sock, roomId) ==
  /\ sock \in sockets
  /\ IF roomId \notin DOMAIN gameRooms
       THEN /\ emitted' = << EvMsg("error", sock, roomId, "Game room not found") >>
            /\ UNCHANGED <<gameRooms, timers>>
       ELSE /\ gameRooms' = [gameRooms EXCEPT ![roomId] = resetRoom(@)]
            /\ timers' = markStale(timers, roomId)
            /\ emitted' = << Ev("gameRestarted", ioRooms[roomId], sock, roomId) >>
  /\ UNCHANGED <<ioRooms, sockets, closed>>
  /\ UNCHANGED genVars

\* socket.on('newPuzzle'), index.js:267-286
NewPuzzle(sock, roomId) ==
  /\ sock \in sockets
  /\ IF roomId \notin DOMAIN gameRooms
       THEN /\ emitted' = << EvMsg("error", sock, roomId, "Game room not found") >>
            /\ UNCHANGED <<gameRooms, timers>>
       ELSE /\ gameRooms' = [gameRooms EXCEPT ![roomId] = resetRoom(@)]
            /\ timers' = markStale(timers, roomId)
            /\ emitted' = << Ev("newPuzzleRequested", ioRooms[roomId], sock,
                                roomId) >>
  /\ UNCHANGED <<ioRooms, sockets, closed>>
  /\ UNCHANGED genVars

\* room.players.splice(playerIndex, 1), index.js:300 (playerIndex from 1)
removeAt(players, i) == SubSeq(players, 1, i - 1) \o SubSeq(players, i + 1, Len(players))

\* What the disconnect handler leaves of one room, index.js:294-301
withoutPlayer(room, sock) ==
  LET i == findPlayer(room, sock)
  IN IF i = 0 THEN room ELSE [room EXCEPT !.players = removeAt(@, i)]

\* `room.players.length === 0` after the splice, index.js:297, 309
leftEmpty(room, sock) ==
  findPlayer(room, sock) # 0 /\ Len(withoutPlayer(room, sock).players) = 0

RECURSIVE disconnectEvents(_, _, _, _)
\* The playerDisconnected events of one disconnect, room after room in
\* Object.keys order, index.js:293-306
disconnectEvents(rooms, io, sock, k) ==
  IF k > Len(RoomOrder) THEN << >>
  ELSE
    LET roomId == RoomOrder[k]
        rest == disconnectEvents(rooms, io, sock, k + 1)
    IN IF roomId \in DOMAIN rooms /\ findPlayer(rooms[roomId], sock) # 0
         THEN << Ev("playerDisconnected", io[roomId] \ {sock}, sock, roomId) >> \o rest
         ELSE rest

RECURSIVE staleAfterDisconnect(_, _, _, _)
\* History: the callbacks of every room the socket was a member of are stale.
staleAfterDisconnect(ts, rooms, sock, k) ==
  IF k > Len(RoomOrder) THEN ts
  ELSE
    LET roomId == RoomOrder[k]
        ts2 == IF roomId \in DOMAIN rooms /\ findPlayer(rooms[roomId], sock) # 0
                 THEN markStale(ts, roomId) ELSE ts
    IN staleAfterDisconnect(ts2, rooms, sock, k + 1)

\* socket.on('disconnect'), index.js:289-315
Disconnect(sock) ==
  /\ sock \in sockets
  /\ sockets' = sockets \ {sock}
  /\ closed' = closed \cup {sock}
  /\ ioRooms' = [r \in RoomIds |-> ioRooms[r] \ {sock}]
  /\ gameRooms' =
       [k \in {r \in DOMAIN gameRooms : ~leftEmpty(gameRooms[r], sock)} |->
          withoutPlayer(gameRooms[k], sock)]
  /\ timers' = staleAfterDisconnect(timers, gameRooms, sock, 1)
  /\ emitted' = disconnectEvents(gameRooms, ioRooms, sock, 1)
  /\ UNCHANGED genVars

\* The cells a client of the model asks placeQueen for: clients fill the
\* board from the top, so the row asked for is at most the number of queens
\* the caller holds (an earlier row is asked for again, the next row is new).
placeInputs(sock, roomId) ==
  LET held == IF roomId \in DOMAIN gameRooms
                   /\ findPlayer(gameRooms[roomId], sock) # 0
                THEN Len(gameRooms[roomId].players[
                           findPlayer(gameRooms[roomId], sock)].queens)
                ELSE 0
  IN {c \in PlaceCells(sock) : c.row <= held}

Next ==
  \/ \E sock \in Sockets : Connect(sock)
  \/ \E sock \in Sockets, roomId \in RoomIds, name \in PlayerNames :
       CreateGame(sock, roomId, name)
  \/ \E sock \in Sockets, roomId \in RoomIds, name \in PlayerNames :
       JoinGame(sock, roomId, name)
  \/ \E sock \in Sockets, roomId \in RoomIds :
       \E ready \in ReadyInputs(sock) : PlayerReady(sock, roomId, ready)
  \/ TimerFire
  \/ \E sock \in Sockets, roomId \in RoomIds :
       \E c \in placeInputs(sock, roomId) : PlaceQueen(sock, roomId, c.row, c.col)
  \/ \E sock \in Sockets, roomId \in RoomIds :
       \E c \in MarkCells(sock) : MarkCell(sock, roomId, c.row, c.col)
  \/ \E sock \in Sockets, roomId \in RoomIds : RestartGame(sock, roomId)
  \/ \E sock \in Sockets, roomId \in RoomIds : NewPuzzle(sock, roomId)
  \/ \E sock \in Sockets : Disconnect(sock)

Spec == SessInit /\ [][Next]_vars

\* ------------------------------------------------------------------------
\* Properties of the session (checked under Spec)
\* ------------------------------------------------------------------------

EventNames(evs) == {evs[i].name : i \in 1 .. Len(evs)}

\* C1: a gameStart delivery is never emitted once its room was destroyed or
\* reset, or a member of its room disconnected, since it was scheduled:
\* whenever the timer callback runs, its delivery is not stale.
C1_StaleDeliveryDropped ==
  [][TimerFire => ~timers[1].stale]_vars

\* C2: every started room, and every gameStart event, holds a board whose
\* solution is present and non-empty.
C2_StartedBoardHasSolution ==
  /\ \A r \in DOMAIN gameRooms :
       gameRooms[r].gameStarted => gameRooms[r].board.solution # NoSolution
  /\ \A i \in 1 .. Len(emitted) :
       emitted[i].name = "gameStart" =>
         \A b \in emitted[i].boards : b.solution # NoSolution

\* Every player of the room is back to ready = false, no queens, no marks.
PlayersReset(room) ==
  \A i \in 1 .. Len(room.players) :
    /\ ~room.players[i].ready
    /\ room.players[i].queens = << >>
    /\ room.players[i].marks = << >>

\* C3: right after the placement that wins (gameWon emitted), the room is
\* still in gameRooms, is not started, has no board, and every player has
\* ready = false, no queens and no marks.
C3_WinResetsRoomAndBoard ==
  \A i \in 1 .. Len(emitted) :
    emitted[i].name = "gameWon" =>
      /\ emitted[i].roomId \in DOMAIN gameRooms
      /\ ~gameRooms[emitted[i].roomId].gameStarted
      /\ gameRooms[emitted[i].roomId].board = NoBoard
      /\ PlayersReset(gameRooms[emitted[i].roomId])

\* The step is an accepted placeQueen (queenPlaced is emitted) by a caller
\* who held WinCount - 1 queens, and the validator accepts the cell against
\* the queens held before the step.
AcceptedEighth ==
  /\ Len(emitted') >= 1
  /\ emitted'[1].name = "queenPlaced"
  /\ emitted'[1].roomId \in DOMAIN gameRooms
  /\ LET e == emitted'[1]
         room == gameRooms[e.roomId]
         i == findPlayer(room, e.socket)
     IN /\ i # 0
        /\ room.gameStarted
        /\ Len(room.players[i].queens) = WinCount - 1
        /\ validateQueenPlacement(room.board, e.row, e.col,
                                  room.players[i].queens).valid

\* C4: gameWon is emitted exactly by the steps that are an accepted placement
\* of the caller's 8th queen; the room is then no longer started, so a round
\* emits it at most once.
C4_GameWonIffEighthAccepted ==
  [][ /\ ("gameWon" \in EventNames(emitted')) <=> AcceptedEighth
      /\ ("gameWon" \in EventNames(emitted')) =>
           /\ Len(emitted') = 2
           /\ ~gameRooms'[emitted'[1].roomId].gameStarted ]_vars

C4_Witness ==
  /\ "gameWon" \in EventNames(emitted)
  /\ \E r \in DOMAIN gameRooms : Len(gameRooms[r].players) = 2

\* The step is a joinGame refused because the room is full.
JoinRefusedFull ==
  /\ Len(emitted') = 1
  /\ emitted'[1].name = "error"
  /\ emitted'[1].message = "Game room is full"

\* C5: every room has at most 2 players, and a joinGame on a room with 2
\* players sends an error to the caller and changes no room.
C5_AtMostTwoPlayers ==
  /\ [](\A r \in DOMAIN gameRooms : Len(gameRooms[r].players) <= 2)
  /\ [][ JoinRefusedFull =>
           /\ gameRooms' = gameRooms
           /\ emitted'[1].to = {emitted'[1].socket}
           /\ Len(gameRooms[emitted'[1].roomId].players) = 2 ]_vars

C5_Witness ==
  /\ Len(emitted) = 1
  /\ emitted[1].name = "error"
  /\ emitted[1].message = "Game room is full"
  /\ emitted[1].socket = "s3"

\* The step ends in a user error: one error or invalidMove event.
UserError ==
  /\ Len(emitted') = 1
  /\ emitted'[1].name \in {"error", "invalidMove"}

\* C6: a step that ends in a user error changes no room, no socket.io
\* membership and no pending callback, and its event goes to the caller only.
C6_UserErrorsChangeNothing ==
  [][ UserError =>
        /\ gameRooms' = gameRooms
        /\ ioRooms' = ioRooms
        /\ timers' = timers
        /\ sockets' = sockets
        /\ emitted'[1].to = {emitted'[1].socket} ]_vars

\* A placement refused by the validator while the caller holds queens and
\* another client sits in the same socket.io room.
C6_Witness ==
  /\ Len(emitted) = 1
  /\ emitted[1].name = "invalidMove"
  /\ emitted[1].message = "There's already a queen in this region"
  /\ ioRooms[emitted[1].roomId] \ {emitted[1].socket} # {}

\* C7: a socket that has disconnected is a player of no room, and every
\* room in gameRooms has at least one player.
C7_DisconnectedLeavesEveryRoom ==
  /\ \A r \in DOMAIN gameRooms : Len(gameRooms[r].players) >= 1
  /\ \A r \in DOMAIN gameRooms : \A i \in 1 .. Len(gameRooms[r].players) :
       gameRooms[r].players[i].id \notin closed

\* ------------------------------------------------------------------------
\* Properties of the generator (checked under SpecGen)
\* ------------------------------------------------------------------------

\* generateRegions() has returned its grid.
GridReturned == pc \in {"solve", "done"}

RegionCells(regs, id) ==
  {p \in Idx \X Idx : regs[p[1]][p[2]] = id}

\* C8: every returned grid assigns every cell an id in 0..7, uses exactly 8
\* distinct ids, and gives each of the 8 ids at least 3 cells.
C8_ReturnedGridHasEightRegions ==
  GridReturned =>
    /\ \A r \in Idx : \A c \in Idx : regions[r][c] \in 0 .. (NUM_REGIONS - 1)
    /\ Cardinality({regions[p[1]][p[2]] : p \in Idx \X Idx}) = NUM_REGIONS
    /\ \A id \in 0 .. (NUM_REGIONS - 1) :
         Cardinality(RegionCells(regions, id)) >= 3

Adjacent(p, q) == Abs(p[1] - q[1]) + Abs(p[2] - q[2]) = 1

RECURSIVE Flood(_, _)
\* The cells of `cells` reachable from `seen` through 4-neighbours.
Flood(cells, seen) ==
  LET more == {p \in cells \ seen : \E q \in seen : Adjacent(p, q)}
  IN IF more = {} THEN seen ELSE Flood(cells, seen \cup more)

FourConnected(cells) ==
  cells = {} \/ Flood(cells, {CHOOSE p \in cells : TRUE}) = cells

\* C9: in every returned grid the cells of each region id are 4-connected.
C9_ReturnedRegionsConnected ==
  GridReturned =>
    \A id \in 0 .. (NUM_REGIONS - 1) : FourConnected(RegionCells(regions, id))

\* SpecGen reaches the boards the session draws from.
GenReachesSolvable == returned = {generatePuzzleBoard(GridSolvable)}
GenReachesUnsolvable == returned = {generatePuzzleBoard(GridUnsolvable)}

\* ------------------------------------------------------------------------
\* The solver on a family of grids (SpecSolve)
\* ------------------------------------------------------------------------

\* Largest coefficient of the linear grids the solver is run on.
MaxCoef == 7

\* The grid whose cell (r, c) lies in region (a*r + b*c) mod 8: rows as
\* regions for (1, 0), columns for (0, 1), one region for (0, 0), ...
LinearGrid(a, b) ==
  [r \in Idx |-> [c \in Idx |-> (a * r + b * c) % NUM_REGIONS]]

SolveGrids ==
  {LinearGrid(a, b) : a \in 0 .. MaxCoef, b \in 0 .. MaxCoef}
    \cup {GridSolvable, GridUnsolvable}

\* findSolution(regions) is about to be called on one of the grids.
SolveInit ==
  /\ regions \in SolveGrids
  /\ usedRegionIds = {}
  /\ regionId = 0
  /\ startRow = 0
  /\ startCol = 0
  /\ queue = << >>
  /\ cellsInRegion = 0
  /\ targetSize = 0
  /\ rng = 0
  /\ depth = 0
  /\ returned = {}
  /\ pc = "solve"
  /\ SessIdle

SpecSolve == SolveInit /\ [][Solve]_vars

\* One queen per row 0..7 in row order, no two in a column, in a region or
\* on a common diagonal.
ValidSolution(regs, sol) ==
  /\ Len(sol) = BOARD_SIZE
  /\ \A i \in 1 .. Len(sol) : sol[i].row = i - 1 /\ sol[i].col \in Idx
  /\ \A i \in 1 .. Len(sol) : \A j \in (i + 1) .. Len(sol) :
       /\ sol[i].col # sol[j].col
       /\ regs[sol[i].row][sol[i].col] # regs[sol[j].row][sol[j].col]
       /\ Abs(sol[i].row - sol[j].row) # Abs(sol[i].col - sol[j].col)

\* C10: whenever findSolution returns a sequence, it is a valid solution of
\* the grid it was given.
C10_SolverReturnsValidSolution ==
  \A b \in returned :
    b.solution # NoSolution => ValidSolution(b.regions, b.solution)

\* The solver has returned a solution for a grid on which adjacent-only
\* diagonal pruning would not be enough.
C10_Witness ==
  \E b \in returned : Len(b.solution) = BOARD_SIZE /\ b.regions = LinearGrid(1, 0)

\* ------------------------------------------------------------------------
\* Validator against solver (SpecBoard)
\* ------------------------------------------------------------------------

\* generatePuzzleBoard() on a generated grid (GenInit) or findSolution on one
\* of the grids of SolveGrids (SolveInit).
BoardInit == GenInit \/ SolveInit

SpecBoard == BoardInit /\ [][GenNext]_vars

\* The solution of the board is replayed through validateQueenPlacement in
\* row order: cell k is validated against cells 1 .. k-1.
ReplayAccepted(board) ==
  \A k \in 1 .. Len(board.solution) :
    validateQueenPlacement(board, board.solution[k].row, board.solution[k].col,
                           SubSeq(board.solution, 1, k - 1)).valid

\* C11: for every board generatePuzzleBoard returns, validateQueenPlacement
\* accepts each cell of board.solution, taken in row order, against the cells
\* accepted before it.
C11_ValidatorAcceptsSolution ==
  \A b \in returned : ReplayAccepted(b)

\* A board came out of the generator with a full solution.
C11_Witness ==
  \E b \in returned :
    /\ Len(b.solution) = BOARD_SIZE
    /\ depth >= 1
    /\ b.regions = regions

\* ------------------------------------------------------------------------
\* More properties of the session (checked under Spec)
\* ------------------------------------------------------------------------

CellSet(cells) == {cells[k] : k \in 1 .. Len(cells)}

\* A room with each player's marks taken as a set of cells.
MarksAsSets(room) ==
  [room EXCEPT !.players =
     [i \in 1 .. Len(room.players) |->
        [room.players[i] EXCEPT !.marks = CellSet(@)]]]

\* The step is a markCell that toggled a mark.
Toggled ==
  /\ Len(emitted') = 1
  /\ emitted'[1].name \in {"cellMarked", "cellUnmarked"}

\* C12: after a markCell that toggles a mark of the caller, the same markCell
\* once more emits the opposite event and leaves every room as it was before
\* the first call, the caller's marks being compared as a set.
C12_MarkTwiceRestores ==
  [][ Toggled =>
        LET e == emitted'[1]
            again == markCell(gameRooms', ioRooms', e.socket, e.roomId,
                              e.row, e.col)
        IN /\ Len(again.emitted) = 1
           /\ again.emitted[1].name =
                IF e.name = "cellMarked" THEN "cellUnmarked" ELSE "cellMarked"
           /\ DOMAIN again.gameRooms = DOMAIN gameRooms
           /\ \A r \in DOMAIN gameRooms :
                MarksAsSets(again.gameRooms[r]) = MarksAsSets(gameRooms[r]) ]_vars

\* A mark was set and then removed by a second markCell on the same cell.
C12_Witness ==
  /\ Len(emitted) = 1
  /\ emitted[1].name = "cellUnmarked"
  /\ emitted[1].roomId \in DOMAIN gameRooms
  /\ \A i \in 1 .. Len(gameRooms[emitted[1].roomId].players) :
       gameRooms[emitted[1].roomId].players[i].marks = << >>

\* The room is started, its board puts (0,0) and (1,0) in one region, and
\* the caller's only queen is at (0,0).
OnlyQueenAtOrigin(sock, roomId) ==
  /\ roomId \in DOMAIN gameRooms
  /\ gameRooms[roomId].gameStarted
  /\ findPlayer(gameRooms[roomId], sock) # 0
  /\ gameRooms[roomId].players[findPlayer(gameRooms[roomId], sock)].queens
       = << Cell(0, 0) >>
  /\ gameRooms[roomId].board.regions[0][0] = gameRooms[roomId].board.regions[1][0]

\* The placeQueen of (1,0) by a caller whose only queen is at (0,0) is
\* refused with the given message and adds no queen.
SecondInColumnRefusedWith(msg) ==
  \A sock \in Sockets, roomId \in RoomIds :
    (OnlyQueenAtOrigin(sock, roomId) /\ PlaceQueen(sock, roomId, 1, 0)) =>
      /\ Len(emitted') = 1
      /\ emitted'[1].name = "invalidMove"
      /\ emitted'[1].message = msg
      /\ gameRooms' = gameRooms

\* C13 as stated: on a started room whose board puts (0,0) and (1,0) in the
\* same region, placeQueen (1,0) by a player whose only queen is at (0,0) is
\* refused with the region message and the queen is not added.
C13_RefusedWithRegionMessage ==
  [][SecondInColumnRefusedWith("There's already a queen in this region")]_vars

\* C13 amended: the same placement is refused with the column message (the
\* column check comes before the region check) and the queen is not added.
C13_RefusedWithColumnMessage ==
  [][SecondInColumnRefusedWith("There's already a queen in this column")]_vars

\* The caller holding only (0,0) has just been refused (1,0).
C13_Witness ==
  /\ Len(emitted) = 1
  /\ emitted[1].name = "invalidMove"
  /\ emitted[1].message = "There's already a queen in this column"
  /\ OnlyQueenAtOrigin(emitted[1].socket, emitted[1].roomId)

\* ------------------------------------------------------------------------
\* Termination of the generator (SpecGenFair)
\* ------------------------------------------------------------------------

\* A step of generateRegions() and of the growRegion() it calls.
generateRegionsStep ==
  PickStart \/ GrowInit \/ GrowStep \/ RegionEnd \/ GenRetry \/ GenReturn

\* A call of generateRegions() keeps running: the JavaScript engine executes
\* its next statement as long as there is one.
SpecGenFair == GenInit /\ [][GenNext]_vars /\ WF_vars(generateRegionsStep)

\* C14: every call of generatePuzzleBoard() eventually ends: generateRegions()
\* returns its grid, after which findSolution runs once and the board is
\* returned.
C14_GenerationTerminates == <>GridReturned

\* C17: whenever the do-while of generateRegions is about to draw a start
\* cell, at least one cell of the grid is still null.
C17_StartCellAvailable ==
  pc = "pickStart" => ~allCellsFilled(regions)

\* The step ends a region attempt of fewer than 3 cells: generateRegions
\* discards it and goes back to draw a start cell for the same id.
DiscardStep ==
  /\ pc = "growLoop"
  /\ pc' = "pickStart"
  /\ cellsInRegion < 3

\* C15: the discard of a short region attempt leaves no cell with the id of
\* the attempt, and every cell of a region that was completed before keeps
\* its id.
C15_DiscardClearsOnlyTheAttempt ==
  [][ DiscardStep =>
        /\ \A r \in Idx : \A c \in Idx : regions'[r][c] # regionId
        /\ \A r \in Idx : \A c \in Idx :
             regions[r][c] \in usedRegionIds => regions'[r][c] = regions[r][c] ]_vars

\* Two cells a player may hold together on a board with the given regions:
\* different rows, columns and regions, and no common diagonal.
MutuallyLegal(regs, p, q) ==
  /\ p.row # q.row
  /\ p.col # q.col
  /\ regs[p.row][p.col] # regs[q.row][q.col]
  /\ Abs(p.row - q.row) # Abs(p.col - q.col)

\* C16: every player holds at most 8 queens, pairwise in different rows,
\* columns, regions of the room's board and diagonals; the players of a room
\* that is not started hold no queen.
C16_QueensMutuallyLegal ==
  \A r \in DOMAIN gameRooms :
    \A i \in 1 .. Len(gameRooms[r].players) :
      LET queens == gameRooms[r].players[i].queens
      IN /\ Len(queens) <= WinCount
         /\ \A a \in 1 .. Len(queens) : \A b \in (a + 1) .. Len(queens) :
              MutuallyLegal(gameRooms[r].board.regions, queens[a], queens[b])
         /\ ~gameRooms[r].gameStarted => queens = << >>

\* A player holding queens has just been refused a cell on a diagonal of one
\* of them.
C16_Witness ==
  /\ Len(emitted) = 1
  /\ emitted[1].name = "invalidMove"
  /\ emitted[1].message = "Queens cannot attack each other diagonally"
  /\ \E r \in DOMAIN gameRooms : \E i \in 1 .. Len(gameRooms[r].players) :
       Len(gameRooms[r].players[i].queens) >= 1

\* The gameStart of the room's current round is still to be delivered: its
\* callback is pending and the round was not reset since it was scheduled.
CountdownRunning(roomId) ==
  \E k \in 1 .. Len(timers) : timers[k].roomId = roomId /\ ~timers[k].stale

\* C18: no queen and no mark is accepted in a room between the gameCountdown
\* of a round and the delivery of its gameStart: no step taken while the
\* countdown runs emits queenPlaced, cellMarked, cellUnmarked or gameWon.
C18_NothingAcceptedBeforeGameStart ==
  [][ \A i \in 1 .. Len(emitted') :
        emitted'[i].name \in {"queenPlaced", "cellMarked", "cellUnmarked", "gameWon"}
          => ~CountdownRunning(emitted'[i].roomId) ]_vars

\* C19: for every player, no cell is both one of the player's queens and one
\* of the player's marks.
C19_QueensAndMarksDisjoint ==
  \A r \in DOMAIN gameRooms :
    \A i \in 1 .. Len(gameRooms[r].players) :
      CellSet(gameRooms[r].players[i].queens)
        \cap CellSet(gameRooms[r].players[i].marks) = {}

\* C20: the players of a room have pairwise distinct ids.
C20_PlayersHaveDistinctIds ==
  \A r \in DOMAIN gameRooms :
    \A i \in 1 .. Len(gameRooms[r].players) :
      \A j \in (i + 1) .. Len(gameRooms[r].players) :
        gameRooms[r].players[i].id # gameRooms[r].players[j].id

====
